---- MODULE Spec2Model ----
(***************************************************************************)
(* Model of pilot/pkg/proxy/envoy/v2/cds.go: the CDS stream handler        *)
(* (StreamClusters, with its reader goroutine), the connection registry    *)
(* cdsConnections with its mutex, the broadcast cdsPushAll and the stub    *)
(* removeCdsCon.                                                           *)
(***************************************************************************)
EXTENDS Integers, Sequences, FiniteSets, TLC

\* ---------------------------------------------------------------- bounds
\* events the environment produces in all: streams opened, requests sent and
\* streams broken by the clients, registrations, invocations of cdsPushAll
\* and requests to Cdsz
MaxEvents == 5

\* ------------------------------------------------------------- constants
\* capacity of CdsConnection.pushChannel: make(chan bool, 1)
PushChannelCap == 1
\* capacity of reqChannel: make(chan *xdsapi.DiscoveryRequest, 1)
ReqChannelCap == 1

\* the streams (one CdsConnection object each)
Conns == {"A", "B"}

\* a nil value (discReq.Node, a nil error)
Nil == "nil"
\* con.modelNode before it is set: a nil *model.Proxy
NilProxy == [ptr |-> FALSE, ID |-> ""]
\* &nt: a pointer to a parsed model.Proxy
AddrOf(nt) == [ptr |-> TRUE, ID |-> nt.ID]
\* no connection
NoCon == "none"

\* node ids a client may report; BadId does not parse
GoodIds == {"svc-a", "svc-b"}
BadId == "bad"
NodeIds == GoodIds \cup {BadId}

\* a DiscoveryRequest: its Node (nil, or a node with that Id) and whether
\* ErrorDetail is set
Requests ==
    [Node : NodeIds \cup {Nil}, ErrorDetail : {FALSE}]
        \cup [Node : {"svc-a"}, ErrorDetail : {TRUE}]

\* errors stream.Recv() may return
RecvErrors == {"EOF", "Canceled", "Unavailable"}

\* the empty string, as a connection key
\* the form of a request to Cdsz: the parameters debug and push (lines 199, 203)
Forms == [debug : {"", "0", "1"}, push : {"", "1"}]
NoForm == [debug |-> Nil, push |-> Nil]

EmptyKey == <<>>
\* the keys a connection can have: the empty string, or a node id with a
\* connection number
Keys == {EmptyKey} \cup (NodeIds \X (1..Cardinality(Conns)))

VARIABLES
    hpc,                    \* position of the handler (StreamClusters) of each stream
    rpc,                    \* position of the reader goroutine of each stream
    initialRequestReceived, \* local of StreamClusters
    modelNode,              \* con.modelNode
    node,                   \* local of StreamClusters, shared with the reader
    reqChannel,             \* buffered requests of reqChannel
    reqClosed,              \* reqChannel was closed
    receiveError,           \* local of StreamClusters, written by the reader
    discReq,                \* the request the reader holds between Recv and the channel send
    pushChannel,            \* number of signals buffered in con.pushChannel
    retErr,                 \* what StreamClusters returned ("running" before it returns)
    trig,                   \* the select case that started the current loop iteration
    rawErr,                 \* BuildClusters returned an error in the current iteration
    connectionNumber,       \* counter behind connectionID
    cdsConnections,         \* the registry map
    cdsConnectionsMux,      \* holder of the registry mutex
    pushPc,                 \* position of cdsPushAll
    tmpMap,                 \* local of cdsPushAll: entries not yet ranged over
    cdsCon,                 \* local of cdsPushAll: the connection being signalled
    nBuild,                 \* calls of BuildClusters by each handler
    nSend,                  \* calls of stream.Send by each handler
    nEvents,                \* streams opened, requests, registrations and broadcasts so far
    evicted,                \* history: connections whose entry another Add replaced
    foundFull,              \* history: line 191 was reached with the buffer full
    sigLate,                \* history: the buffered signal was sent after such a wait
    cdsDebug,               \* the package variable cdsDebug
    cdszReq,                \* the form of the Cdsz request being served, or NoForm
    recvFailed,             \* history: the error stream.Recv() returned to the reader
    firstId,                \* history: the node id of the request that made the connection ACTIVE
    nRecvd,                 \* history: requests stream.Recv() returned to each reader
    nPushTaken,             \* history: push signals each handler took from pushChannel
    nTaken,                 \* history: requests each handler took from reqChannel
    crashed                 \* the process died of an unrecovered panic

vars == <<hpc, rpc, initialRequestReceived, modelNode, node, reqChannel,
          reqClosed, receiveError, discReq, pushChannel, retErr, trig, rawErr,
          connectionNumber, cdsConnections, cdsConnectionsMux, pushPc, tmpMap,
          cdsCon, nBuild, nSend, nEvents, evicted, foundFull, sigLate,
          recvFailed, firstId, nRecvd, nTaken, nPushTaken, cdsDebug, cdszReq,
          crashed>>

handlerVars == <<hpc, initialRequestReceived, modelNode, node, retErr, trig,
                 rawErr, connectionNumber, nBuild, nSend, firstId, nTaken,
                 nPushTaken>>
readerVars == <<rpc, reqClosed, receiveError, discReq, recvFailed, nRecvd>>
pushVars == <<pushPc, tmpMap, cdsCon, foundFull, cdsDebug, cdszReq>>
regVars == <<cdsConnections, cdsConnectionsMux, evicted>>

\* ------------------------------------------------------------- helpers
\* a map with one entry put (Go: m[k] = v)
MapPut(m, k, v) == [x \in (DOMAIN m) \cup {k} |-> IF x = k THEN v ELSE m[x]]
\* a map with one entry deleted (Go: delete(m, k))
MapDelete(m, k) == [x \in (DOMAIN m) \ {k} |-> m[x]]
EmptyMap == [x \in {} |-> NoCon]

\* model.ParseServiceNode: the parsed identity, or an error
\* (on failure Go returns the zero Proxy value next to the error)
ParseServiceNode(id) ==
    IF id \in GoodIds THEN [nt |-> [ID |-> id], err |-> Nil]
    ELSE [nt |-> [ID |-> ""], err |-> "ParseError"]

\* connectionID: the node id with the next connection number
connectionID(id, n) == <<id, n + 1>>

\* a removal that deletes the entry of the key, whatever connection it holds
removeCdsConUnguarded(reg, n, connection) == MapDelete(reg, n)

\* removeCdsCon: the body is empty, the registry is left as it is
removeCdsCon(reg, n, connection) == reg

\* the handler is between its start and its return
Live(c) == hpc[c] \in {"select", "build", "send"}

Init ==
    /\ hpc = [c \in Conns |-> "idle"]
    /\ rpc = [c \in Conns |-> "idle"]
    /\ initialRequestReceived = [c \in Conns |-> FALSE]
    /\ modelNode = [c \in Conns |-> NilProxy]
    /\ node = [c \in Conns |-> EmptyKey]
    /\ reqChannel = [c \in Conns |-> <<>>]
    /\ reqClosed = [c \in Conns |-> FALSE]
    /\ receiveError = [c \in Conns |-> Nil]
    /\ discReq = [c \in Conns |-> Nil]
    /\ pushChannel = [c \in Conns |-> 0]
    /\ retErr = [c \in Conns |-> "running"]
    /\ trig = [c \in Conns |-> "none"]
    /\ rawErr = [c \in Conns |-> FALSE]
    /\ connectionNumber = 0
    /\ cdsConnections = EmptyMap
    /\ cdsConnectionsMux = "free"
    /\ pushPc = "idle"
    /\ tmpMap = EmptyMap
    /\ cdsCon = NoCon
    /\ nBuild = [c \in Conns |-> 0]
    /\ nSend = [c \in Conns |-> 0]
    /\ nEvents = 0
    /\ evicted = {}
    /\ foundFull = FALSE
    /\ sigLate = [c \in Conns |-> FALSE]
    /\ cdsDebug = TRUE
    /\ cdszReq = NoForm
    /\ recvFailed = [c \in Conns |-> Nil]
    /\ firstId = [c \in Conns |-> Nil]
    /\ nRecvd = [c \in Conns |-> 0]
    /\ nTaken = [c \in Conns |-> 0]
    /\ nPushTaken = [c \in Conns |-> 0]
    /\ crashed = FALSE

\* ------------------------------------------------- StreamClusters, start
\* lines 86-124: the locals and the connection are created, the reader is
\* started, the handler reaches its select; nothing is put in the registry
StreamOpen(c) ==
    /\ ~crashed
    /\ hpc[c] = "idle"
    /\ nEvents < MaxEvents
    /\ nEvents' = nEvents + 1
    /\ hpc' = [hpc EXCEPT ![c] = "select"]
    /\ rpc' = [rpc EXCEPT ![c] = "recv"]
    /\ UNCHANGED <<initialRequestReceived, modelNode, node, reqChannel,
                   reqClosed, receiveError, discReq, pushChannel, retErr, trig,
                   rawErr, connectionNumber, nBuild, nSend, sigLate, crashed,
                   recvFailed, firstId, nRecvd, nTaken, nPushTaken>>
    /\ UNCHANGED <<pushVars, regVars>>

\* ------------------------------------------- StreamClusters, the reader
\* a request with the position it has among those its reader received
\* (history, to follow the request through reqChannel)
Stamped(r, i) == [Node |-> r.Node, ErrorDetail |-> r.ErrorDetail, seq |-> i]

\* lines 110, 122 (first half): stream.Recv() returns a request
ReaderRecv(c, r) ==
    /\ ~crashed
    /\ rpc[c] = "recv"
    /\ nEvents < MaxEvents
    /\ discReq' = [discReq EXCEPT ![c] = Stamped(r, nRecvd[c] + 1)]
    /\ nRecvd' = [nRecvd EXCEPT ![c] = @ + 1]
    /\ nEvents' = nEvents + 1
    /\ rpc' = [rpc EXCEPT ![c] = "put"]
    /\ UNCHANGED <<reqClosed, receiveError, recvFailed, reqChannel, pushChannel,
                   sigLate, crashed>>
    /\ UNCHANGED <<handlerVars, pushVars, regVars>>

\* a channel send that never waits
CanPutAlways(q) == TRUE

\* the channel send of line 122 can proceed
CanPut(q) == Len(q) < ReqChannelCap

\* line 122: reqChannel <- req, which waits while the buffer is full
ReaderPut(c) ==
    /\ ~crashed
    /\ rpc[c] = "put"
    /\ CanPut(reqChannel[c])
    /\ reqChannel' = [reqChannel EXCEPT ![c] = Append(@, discReq[c])]
    /\ discReq' = [discReq EXCEPT ![c] = Nil]
    /\ rpc' = [rpc EXCEPT ![c] = "recv"]
    /\ UNCHANGED <<reqClosed, receiveError, recvFailed, nRecvd, nEvents,
                   pushChannel, sigLate, crashed>>
    /\ UNCHANGED <<handlerVars, pushVars, regVars>>

\* a reader that records no error
RecordedErrorNever(old, e) == old

\* the error the reader leaves in receiveError (lines 116-120)
RecordedError(old, e) == IF e \in {"Canceled", "EOF"} THEN old ELSE e

\* lines 111-121 and the deferred close of line 108: stream.Recv() fails.
\* node is read without synchronisation with the handler that writes it,
\* so the reader sees the empty string or the handler's value.
ReaderRecvErr(c, e) ==
    /\ ~crashed
    /\ rpc[c] = "recv"
    /\ nEvents < MaxEvents
    /\ nEvents' = nEvents + 1
    /\ \E n \in {EmptyKey, node[c]} :
          cdsConnections' = removeCdsCon(cdsConnections, n, c)
    /\ receiveError' = [receiveError EXCEPT ![c] = RecordedError(@, e)]
    /\ recvFailed' = [recvFailed EXCEPT ![c] = e]
    /\ reqClosed' = [reqClosed EXCEPT ![c] = TRUE]
    /\ rpc' = [rpc EXCEPT ![c] = "done"]
    /\ UNCHANGED <<discReq, nRecvd, reqChannel, pushChannel, sigLate,
                   crashed, cdsConnectionsMux, evicted>>
    /\ UNCHANGED <<handlerVars, pushVars>>

\* ------------------------------------- StreamClusters, the handler loop
\* con.modelNode assigned before the error of the parse is looked at
ModelNodeAssignedBeforeCheck(old, p) == AddrOf(p.nt)

\* con.modelNode after lines 135-140: set only when the parse succeeded
ModelNodeAfterParse(old, p) == IF p.err = Nil THEN AddrOf(p.nt) ELSE old

\* an acknowledgement that falls through to the call of BuildClusters
FallThrough(pc) == "build"

\* line 152: continue, back to the select of line 127
Continue(pc) == "select"

\* a parse whose error is not looked at
ParseFailedNever(p) == FALSE

\* line 136: err != nil
ParseFailed(p) == p.err # Nil

\* every request taken for an acknowledgement
IsAckAlways(received) == TRUE

\* line 144: a request is an acknowledgement once initialRequestReceived
IsAck(received) == received

\* lines 128-158: a request is taken from reqChannel
HandlerRecvReq(c) ==
    /\ ~crashed
    /\ hpc[c] = "select"
    /\ Len(reqChannel[c]) > 0
    /\ LET r == Head(reqChannel[c]) IN
       /\ reqChannel' = [reqChannel EXCEPT ![c] = Tail(@)]
       /\ IF r.Node = Nil
          THEN \* line 135: discReq.Node.Id on a nil Node panics
               /\ crashed' = TRUE
               /\ nTaken' = [nTaken EXCEPT ![c] = @ + 1]
               /\ UNCHANGED <<hpc, initialRequestReceived, modelNode, node,
                              retErr, trig, rawErr, connectionNumber, nBuild,
                              nSend, firstId, nPushTaken>>
          ELSE LET p == ParseServiceNode(r.Node)
                   fresh == node[c] = EmptyKey
               IN
               /\ crashed' = FALSE
               /\ node' = [node EXCEPT ![c] =
                             IF fresh THEN connectionID(r.Node, connectionNumber)
                             ELSE @]
               /\ connectionNumber' = IF fresh THEN connectionNumber + 1
                                      ELSE connectionNumber
               /\ modelNode' = [modelNode EXCEPT ![c] = ModelNodeAfterParse(@, p)]
               /\ nTaken' = [nTaken EXCEPT ![c] = @ + 1]
               /\ firstId' = [firstId EXCEPT ![c] =
                                IF p.err = Nil /\ ~initialRequestReceived[c]
                                THEN r.Node ELSE @]
               /\ IF ParseFailed(p)
                  THEN \* line 137
                       /\ hpc' = [hpc EXCEPT ![c] = "done"]
                       /\ retErr' = [retErr EXCEPT ![c] = p.err]
                       /\ UNCHANGED <<initialRequestReceived, trig>>
                  ELSE IF IsAck(initialRequestReceived[c])
                  THEN \* lines 144-153: an acknowledgement
                       /\ hpc' = [hpc EXCEPT ![c] = Continue(@)]
                       /\ UNCHANGED <<retErr, initialRequestReceived, trig>>
                  ELSE \* lines 154-158: the initial request
                       /\ initialRequestReceived' =
                             [initialRequestReceived EXCEPT ![c] = TRUE]
                       /\ hpc' = [hpc EXCEPT ![c] = "build"]
                       /\ trig' = [trig EXCEPT ![c] = "req"]
                       /\ UNCHANGED retErr
               /\ UNCHANGED <<rawErr, nBuild, nSend, nPushTaken>>
    /\ UNCHANGED <<pushChannel, sigLate, nEvents>>
    /\ UNCHANGED <<readerVars, pushVars, regVars>>

\* lines 128-131: reqChannel is closed and drained
HandlerRecvClosed(c) ==
    /\ ~crashed
    /\ hpc[c] = "select"
    /\ Len(reqChannel[c]) = 0
    /\ reqClosed[c]
    /\ hpc' = [hpc EXCEPT ![c] = "done"]
    /\ retErr' = [retErr EXCEPT ![c] = receiveError[c]]
    /\ UNCHANGED <<initialRequestReceived, modelNode, node, trig, rawErr,
                   connectionNumber, nBuild, nSend, firstId, nTaken,
                   nPushTaken>>
    /\ UNCHANGED <<reqChannel, pushChannel, sigLate, nEvents, crashed>>
    /\ UNCHANGED <<readerVars, pushVars, regVars>>

\* line 160: a push signal is taken from con.pushChannel
HandlerPush(c) ==
    /\ ~crashed
    /\ hpc[c] = "select"
    /\ pushChannel[c] > 0
    /\ pushChannel' = [pushChannel EXCEPT ![c] = @ - 1]
    /\ sigLate' = [sigLate EXCEPT ![c] = FALSE]
    /\ hpc' = [hpc EXCEPT ![c] = "build"]
    /\ trig' = [trig EXCEPT ![c] = IF sigLate[c] THEN "latepush" ELSE "push"]
    /\ nPushTaken' = [nPushTaken EXCEPT ![c] = @ + 1]
    /\ UNCHANGED <<initialRequestReceived, modelNode, node, retErr, rawErr,
                   connectionNumber, nBuild, nSend, firstId, nTaken>>
    /\ UNCHANGED <<reqChannel, nEvents, crashed>>
    /\ UNCHANGED <<readerVars, pushVars, regVars>>

\* a call that passes the pointer on without dereferencing it
DerefPanicsNever(m) == FALSE

\* line 163: *con.modelNode panics on a nil pointer
DerefPanics(m) == ~m.ptr

\* line 163: BuildClusters is called with the dereferenced identity; its
\* error result is discarded
HandlerBuild(c) ==
    /\ ~crashed
    /\ hpc[c] = "build"
    /\ IF DerefPanics(modelNode[c])
       THEN /\ crashed' = TRUE
            /\ UNCHANGED handlerVars
       ELSE /\ crashed' = FALSE
            /\ \E failed \in BOOLEAN : rawErr' = [rawErr EXCEPT ![c] = failed]
            /\ nBuild' = [nBuild EXCEPT ![c] = @ + 1]
            /\ hpc' = [hpc EXCEPT ![c] = "send"]
            /\ UNCHANGED <<initialRequestReceived, modelNode, node, retErr,
                           trig, connectionNumber, nSend, firstId, nTaken,
                   nPushTaken>>
    /\ UNCHANGED <<reqChannel, pushChannel, sigLate, nEvents>>
    /\ UNCHANGED <<readerVars, pushVars, regVars>>

\* lines 165-177: the response is built and written to the stream
HandlerSend(c) ==
    /\ ~crashed
    /\ hpc[c] = "send"
    /\ nSend' = [nSend EXCEPT ![c] = @ + 1]
    /\ \E ok \in BOOLEAN :
          IF ok
          THEN /\ hpc' = [hpc EXCEPT ![c] = "select"]
               /\ trig' = [trig EXCEPT ![c] = "none"]
               /\ rawErr' = [rawErr EXCEPT ![c] = FALSE]
               /\ UNCHANGED retErr
          ELSE /\ hpc' = [hpc EXCEPT ![c] = "done"]
               /\ retErr' = [retErr EXCEPT ![c] = "SendError"]
               /\ UNCHANGED <<trig, rawErr>>
    /\ UNCHANGED <<initialRequestReceived, modelNode, node, connectionNumber,
                   nBuild, firstId, nTaken,
                   nPushTaken>>
    /\ UNCHANGED <<reqChannel, pushChannel, sigLate, nEvents, crashed>>
    /\ UNCHANGED <<readerVars, pushVars, regVars>>

\* ------------------------------------------------------------ registry
\* Add(key, connection) of the registry contract: the entry is inserted
\* under the lock and replaces a prior entry of the key.  A running handler
\* registers its connection once, under the key it knows at that time.
Add(c) ==
    /\ ~crashed
    /\ Live(c)
    /\ nEvents < MaxEvents
    /\ cdsConnectionsMux = "free"
    /\ \A k \in DOMAIN cdsConnections : cdsConnections[k] # c
    /\ c \notin evicted
    /\ cdsConnections' = MapPut(cdsConnections, node[c], c)
    /\ evicted' = IF node[c] \in DOMAIN cdsConnections
                  THEN evicted \cup {cdsConnections[node[c]]}
                  ELSE evicted
    /\ nEvents' = nEvents + 1
    /\ UNCHANGED <<cdsConnectionsMux, reqChannel, pushChannel, sigLate, crashed>>
    /\ UNCHANGED <<handlerVars, readerVars, pushVars>>

\* ---------------------------------------------------------- cdsPushAll
\* line 182
PushAllLock ==
    /\ ~crashed
    /\ pushPc = "idle"
    /\ nEvents < MaxEvents
    /\ cdsConnectionsMux = "free"
    /\ cdsConnectionsMux' = "cdsPushAll"
    /\ pushPc' = "copy"
    /\ nEvents' = nEvents + 1
    /\ UNCHANGED <<tmpMap, cdsCon, foundFull, cdsConnections, evicted>>
    /\ UNCHANGED <<cdsDebug, cdszReq>>
    /\ UNCHANGED <<reqChannel, pushChannel, sigLate, crashed>>
    /\ UNCHANGED <<handlerVars, readerVars>>

\* an Unlock that is left to the return of cdsPushAll
UnlockDeferred(m) == m

\* line 188: cdsConnectionsMux.Unlock()
Unlock(m) == "free"

\* lines 184-188
PushAllCopy ==
    /\ ~crashed
    /\ pushPc = "copy"
    /\ tmpMap' = cdsConnections
    /\ cdsConnectionsMux' = Unlock(cdsConnectionsMux)
    /\ pushPc' = "range"
    /\ UNCHANGED <<cdsCon, foundFull, cdsConnections, evicted>>
    /\ UNCHANGED <<cdsDebug, cdszReq>>
    /\ UNCHANGED <<reqChannel, pushChannel, sigLate, nEvents, crashed>>
    /\ UNCHANGED <<handlerVars, readerVars>>

\* the channel send of line 191 can proceed
CanSignal(buffered) == buffered < PushChannelCap

\* line 190: the range statement yields the next entry, in any order
PushAllRange(k) ==
    /\ ~crashed
    /\ pushPc = "range"
    /\ k \in DOMAIN tmpMap
    /\ cdsCon' = tmpMap[k]
    /\ tmpMap' = MapDelete(tmpMap, k)
    /\ foundFull' = ~CanSignal(pushChannel[tmpMap[k]])
    /\ pushPc' = "signal"
    /\ UNCHANGED <<cdsDebug, cdszReq>>
    /\ UNCHANGED <<reqChannel, pushChannel, sigLate, nEvents, crashed>>
    /\ UNCHANGED <<handlerVars, readerVars, regVars>>

\* line 191: cdsCon.pushChannel <- true, which waits while the buffer is full
PushAllSignal ==
    /\ ~crashed
    /\ pushPc = "signal"
    /\ CanSignal(pushChannel[cdsCon])
    /\ pushChannel' = [pushChannel EXCEPT ![cdsCon] = @ + 1]
    /\ sigLate' = [sigLate EXCEPT ![cdsCon] = foundFull]
    /\ cdsCon' = NoCon
    /\ foundFull' = FALSE
    /\ pushPc' = "range"
    /\ UNCHANGED <<cdsDebug, cdszReq>>
    /\ UNCHANGED <<tmpMap, reqChannel, nEvents, crashed>>
    /\ UNCHANGED <<handlerVars, readerVars, regVars>>

\* line 193: the range is exhausted; a call made by Cdsz (line 204) returns
\* into Cdsz, which goes on to line 206
PushAllReturn ==
    /\ ~crashed
    /\ pushPc = "range"
    /\ DOMAIN tmpMap = {}
    /\ pushPc' = IF cdszReq = NoForm THEN "idle" ELSE "marshal"
    /\ UNCHANGED <<tmpMap, cdsCon, foundFull, cdsDebug, cdszReq>>
    /\ UNCHANGED <<reqChannel, pushChannel, sigLate, nEvents, crashed>>
    /\ UNCHANGED <<handlerVars, readerVars, regVars>>

\* ---------------------------------------------------------------- Cdsz
\* a push for every form
CdszPushesAlways(form) == TRUE

\* line 203: req.Form.Get("push") != ""
CdszPushes(form) == form.push # ""

\* lines 197-205: the form is parsed; a debug parameter sets cdsDebug and
\* ends the request; a push parameter calls cdsPushAll, whose first
\* statement takes the lock (line 182); otherwise the request goes on to
\* line 206
Cdsz(form) ==
    /\ ~crashed
    /\ pushPc = "idle"
    /\ nEvents < MaxEvents
    /\ nEvents' = nEvents + 1
    /\ IF form.debug # ""
       THEN /\ cdsDebug' = (form.debug = "1")
            /\ UNCHANGED <<pushPc, cdszReq, cdsConnectionsMux>>
       ELSE IF CdszPushes(form)
       THEN /\ cdsConnectionsMux = "free"
            /\ cdsConnectionsMux' = "cdsPushAll"
            /\ pushPc' = "copy"
            /\ cdszReq' = form
            /\ UNCHANGED cdsDebug
       ELSE /\ pushPc' = "marshal"
            /\ cdszReq' = form
            /\ UNCHANGED <<cdsDebug, cdsConnectionsMux>>
    /\ UNCHANGED <<tmpMap, cdsCon, foundFull, cdsConnections, evicted>>
    /\ UNCHANGED <<reqChannel, pushChannel, sigLate, crashed>>
    /\ UNCHANGED <<handlerVars, readerVars>>

\* lines 206-212: json.Marshal(cdsConnections) reads the registry, with no
\* lock taken, and the outcome is written to the response
CdszMarshal ==
    /\ ~crashed
    /\ pushPc = "marshal"
    /\ pushPc' = "idle"
    /\ cdszReq' = NoForm
    /\ UNCHANGED <<tmpMap, cdsCon, foundFull, cdsDebug>>
    /\ UNCHANGED <<reqChannel, pushChannel, sigLate, nEvents, crashed>>
    /\ UNCHANGED <<handlerVars, readerVars, regVars>>

Next ==
    \/ \E c \in Conns : StreamOpen(c)
    \/ \E c \in Conns, r \in Requests : ReaderRecv(c, r)
    \/ \E c \in Conns : ReaderPut(c)
    \/ \E c \in Conns, e \in RecvErrors : ReaderRecvErr(c, e)
    \/ \E c \in Conns : HandlerRecvReq(c)
    \/ \E c \in Conns : HandlerRecvClosed(c)
    \/ \E c \in Conns : HandlerPush(c)
    \/ \E c \in Conns : HandlerBuild(c)
    \/ \E c \in Conns : HandlerSend(c)
    \/ \E c \in Conns : Add(c)
    \/ PushAllLock
    \/ PushAllCopy
    \/ \E k \in Keys : PushAllRange(k)
    \/ PushAllSignal
    \/ PushAllReturn
    \/ \E form \in Forms : Cdsz(form)
    \/ CdszMarshal

Spec == Init /\ [][Next]_vars

\* ------------------------------------------------------------ claims
\* c is held by some entry of the registry
Registered(c) == \E k \in DOMAIN cdsConnections : cdsConnections[k] = c

\* the handler of c takes a request from reqChannel in this step
TakesRequest(c) ==
    /\ hpc[c] = "select"
    /\ Len(reqChannel[c]) > 0
    /\ reqChannel'[c] = Tail(reqChannel[c])

\* C1: BuildClusters is called and a response is sent on a stream only
\* while con.modelNode is set; a push signal taken before the first request
\* was processed leads to neither.
C1_NoPushBeforeIdentity ==
    [][\A c \in Conns :
          (nBuild'[c] # nBuild[c] \/ nSend'[c] # nSend[c])
              => (modelNode[c].ptr /\ initialRequestReceived[c])]_vars

\* C1 witness: a push signal was taken before any request was processed,
\* and the iteration ended without a call of BuildClusters and without a send
C1_Witness ==
    \E c \in Conns :
        /\ trig[c] = "push"
        /\ ~initialRequestReceived[c]
        /\ crashed
        /\ nBuild[c] = 0
        /\ nSend[c] = 0

\* C2 (as claimed): a connection is in the registry exactly while its
\* stream handler runs.
C2_RegisteredIffLive == \A c \in Conns : Registered(c) <=> Live(c)

\* C3 (as claimed): once a stream handler has returned, its connection is in
\* no entry of the registry, so that no later snapshot holds it.
C3_RemovedOnTermination == \A c \in Conns : hpc[c] = "done" => ~Registered(c)

\* C4: the removal a reader performs for its connection takes no entry of
\* the registry that holds another connection: after K was registered with
\* A and then with B, removing (K, A) leaves K mapped to B.
C4_StaleRemoveKeepsNewer ==
    [][\A c \in Conns :
          (rpc[c] = "recv" /\ rpc'[c] = "done")
              => \A k \in DOMAIN cdsConnections :
                    cdsConnections[k] # c
                        => /\ k \in DOMAIN cdsConnections'
                           /\ cdsConnections'[k] = cdsConnections[k]]_vars

\* C4 witness: A's entry was replaced by B's under the same key, A's reader
\* has performed its removal and the key holds B
C4_Witness ==
    \E a, b \in Conns :
        /\ a # b
        /\ a \in evicted
        /\ rpc[a] = "done"
        /\ \E k \in DOMAIN cdsConnections :
              cdsConnections[k] = b /\ k \in {EmptyKey, node[a]}

\* C5 (as claimed): cdsPushAll never waits on a push channel: a connection
\* whose channel is full is skipped.
C5_PushNeverWaits ==
    pushPc = "signal" => CanSignal(pushChannel[cdsCon])

\* C6 (as claimed): a push channel holds at most one signal, and a
\* broadcast that reached a connection while a push was pending leads to no
\* further triggered send.
C6_Coalescing ==
    [][/\ \A c \in Conns : pushChannel'[c] <= 1
       /\ \A c \in Conns :
             nSend'[c] # nSend[c] => trig[c] # "latepush"]_vars

\* C7 (as claimed): every connection that a broadcast finds registered and
\* ACTIVE sends a triggered response for it, so at the time the broadcast
\* copies the registry each such connection has a running handler.
C7_BroadcastReachesRunningHandlers ==
    [][(pushPc = "copy" /\ pushPc' = "range")
          => \A k \in DOMAIN tmpMap' :
                initialRequestReceived[tmpMap'[k]] => Live(tmpMap'[k])]_vars

\* C8 (as claimed): a request taken once the connection is ACTIVE is an
\* acknowledgement: it leads to no call of BuildClusters and no send, and
\* the handler goes on waiting for the next trigger.
C8_AckIsIgnored ==
    [][\A c \in Conns :
          (TakesRequest(c) /\ initialRequestReceived[c])
              => /\ nBuild'[c] = nBuild[c]
                 /\ nSend'[c] = nSend[c]
                 /\ hpc'[c] = "select"
                 /\ ~crashed']_vars

\* C9 (as claimed): no response is sent in a loop iteration whose call of
\* BuildClusters returned an error.
C9_NoSendAfterProducerError ==
    [][\A c \in Conns :
          (hpc[c] = "send" /\ rawErr[c]) => nSend'[c] = nSend[c]]_vars

\* C10: when the identity of the first request does not parse, the handler
\* returns that error, con.modelNode stays unset, BuildClusters was not
\* called and nothing was sent, then or later.
C10_ParseFailureOnFirstRequest ==
    [][\A c \in Conns :
          /\ (/\ TakesRequest(c)
              /\ ~initialRequestReceived[c]
              /\ Head(reqChannel[c]).Node \in NodeIds
              /\ ParseServiceNode(Head(reqChannel[c]).Node).err # Nil)
                => /\ hpc'[c] = "done"
                   /\ retErr'[c] = ParseServiceNode(Head(reqChannel[c]).Node).err
                   /\ ~modelNode'[c].ptr
                   /\ nBuild'[c] = 0
                   /\ nSend'[c] = 0
          /\ (retErr[c] = "ParseError" /\ ~initialRequestReceived[c])
                => /\ hpc'[c] = "done"
                   /\ modelNode'[c] = NilProxy
                   /\ nBuild'[c] = 0
                   /\ nSend'[c] = 0]_vars

\* C10 witness: a handler returned the parse error of its first request
C10_Witness ==
    \E c \in Conns :
        /\ hpc[c] = "done"
        /\ retErr[c] = "ParseError"
        /\ ~initialRequestReceived[c]
        /\ ~modelNode[c].ptr

\* C11: a handler whose stream.Send failed has returned the error of the
\* send, and its connection is no longer in the registry.
C11_SendFailureRemoves ==
    \A c \in Conns :
        retErr[c] = "SendError" => (hpc[c] = "done" /\ ~Registered(c))

\* what StreamClusters is to return for the error e of stream.Recv()
ReturnFor(e) == IF e \in {"EOF", "Canceled"} THEN Nil ELSE e

\* C12: when the reader closes reqChannel, receiveError already holds what
\* is to be returned for the error stream.Recv() gave; and a handler that
\* finds reqChannel closed returns nil for EOF and cancellation and the read
\* error itself otherwise.
C12_ReadErrorIsReturned ==
    [][\A c \in Conns :
          /\ (reqClosed'[c] /\ ~reqClosed[c])
                => (recvFailed'[c] # Nil
                    /\ receiveError'[c] = ReturnFor(recvFailed'[c]))
          /\ (hpc[c] = "select" /\ hpc'[c] = "done" /\ Len(reqChannel[c]) = 0)
                => (reqClosed[c] /\ recvFailed[c] # Nil
                    /\ retErr'[c] = ReturnFor(recvFailed[c]))]_vars

\* C12 witness: a handler returned the read error of its reader, another
\* returned nil after an EOF or a cancellation
C12_Witness ==
    \E c, d \in Conns :
        /\ hpc[c] = "done" /\ recvFailed[c] = "Unavailable"
        /\ retErr[c] = "Unavailable"
        /\ hpc[d] = "done" /\ recvFailed[d] \in {"EOF", "Canceled"}
        /\ retErr[d] = Nil

\* C13: the first request, when its node id parses, sets
\* initialRequestReceived and con.modelNode and starts one iteration that
\* calls BuildClusters once, with the identity parsed from that request,
\* and then calls stream.Send once.
C13_FirstRequestActivates ==
    [][\A c \in Conns :
          /\ (/\ TakesRequest(c)
              /\ ~initialRequestReceived[c]
              /\ Head(reqChannel[c]).Node \in NodeIds
              /\ ParseServiceNode(Head(reqChannel[c]).Node).err = Nil)
                => /\ initialRequestReceived'[c]
                   /\ modelNode'[c] =
                         AddrOf(ParseServiceNode(Head(reqChannel[c]).Node).nt)
                   /\ hpc'[c] = "build" /\ trig'[c] = "req"
                   /\ nBuild'[c] = 0 /\ nSend'[c] = 0
          /\ (trig[c] = "req" /\ hpc[c] = "build")
                => /\ modelNode[c] = AddrOf(ParseServiceNode(firstId[c]).nt)
                   /\ hpc'[c] # hpc[c]
                         => (/\ hpc'[c] = "send" /\ ~crashed'
                             /\ nBuild'[c] = 1 /\ nSend'[c] = 0)
          /\ (trig[c] = "req" /\ hpc[c] = "send" /\ hpc'[c] # hpc[c])
                => (nBuild'[c] = 1 /\ nSend'[c] = 1)]_vars

\* C13 witness: the iteration of the first request is over, with one call
\* of BuildClusters and one send, and the handler waits in its select
C13_Witness ==
    \E c \in Conns :
        /\ initialRequestReceived[c]
        /\ modelNode[c] = AddrOf(ParseServiceNode(firstId[c]).nt)
        /\ hpc[c] = "select"
        /\ nTaken[c] = 1
        /\ nBuild[c] = 1 /\ nSend[c] = 1

\* C14: once a connection is ACTIVE, con.modelNode is the identity parsed
\* from its first request, in every later state.
C14_IdentityWrittenOnce ==
    \A c \in Conns :
        initialRequestReceived[c]
            => modelNode[c] = AddrOf(ParseServiceNode(firstId[c]).nt)

\* C15: once the handler has returned, its reader is not waiting to put a
\* request into a full reqChannel, a wait that nothing can end, since the
\* handler was the only receiver.
C15_ReaderNotStuckOnQueue ==
    \A c \in Conns :
        ~(hpc[c] = "done" /\ rpc[c] = "put" /\ ~CanPut(reqChannel[c]))

\* the step is one of a request to Cdsz: its form is form
CdszStep(form) ==
    \/ cdsDebug' # cdsDebug /\ form = NoForm
    \/ pushPc' # pushPc /\ form # NoForm /\ form \in {cdszReq, cdszReq'}

\* C16: no step of a request to Cdsz changes the registry, the state of a
\* handler or reader, or a request queue; a request without the push
\* parameter leaves the push channels, the lock and the snapshot alone too,
\* and one with it changes the push channels only by the signals of its
\* one broadcast, a single signal to the connection the range has reached.
C16_CdszOnlyBroadcasts ==
    [][\A form \in Forms \cup {NoForm} :
          CdszStep(form)
              => /\ UNCHANGED <<cdsConnections, handlerVars, readerVars,
                                reqChannel, crashed>>
                 /\ IF form = NoForm \/ form.push = ""
                    THEN UNCHANGED <<pushChannel, cdsConnectionsMux, tmpMap>>
                    ELSE \A c \in Conns :
                            pushChannel'[c] # pushChannel[c]
                                => (/\ pushPc = "signal" /\ c = cdsCon
                                    /\ pushChannel'[c] = pushChannel[c] + 1)]_vars

\* C16 witness: after a request that turned cdsDebug off, a request with
\* the push parameter has made its broadcast, which signalled a connection,
\* and is about to serialize the registry
C16_Witness ==
    /\ pushPc = "marshal"
    /\ cdszReq.push = "1"
    /\ ~cdsDebug
    /\ \E c \in Conns : Registered(c) /\ pushChannel[c] = 1

\* C17: while cdsPushAll ranges over its copy and sends on push channels it
\* does not hold cdsConnectionsMux: the lock is released before the first
\* signal, so a send that waits on a full channel keeps nobody from the
\* registry.
C17_NoLockWhileSignalling ==
    pushPc \in {"range", "signal"} => cdsConnectionsMux = "free"

\* C17 witness: cdsPushAll is about to send to a connection of its copy,
\* and meanwhile another connection, which no signal has reached, has been
\* registered: it was added after the copy was taken
C17_Witness ==
    /\ pushPc = "signal"
    /\ cdsConnectionsMux = "free"
    /\ \E c \in Conns :
          /\ Registered(c) /\ c # cdsCon
          /\ \A k \in DOMAIN tmpMap : tmpMap[k] # c
          /\ pushChannel[c] = 0 /\ hpc[c] = "select" /\ trig[c] = "none"
          /\ nSend[c] = 0 /\ ~crashed

\* C18: whoever reads the registry map holds cdsConnectionsMux while it
\* does: cdsPushAll while it copies, Cdsz while it serializes.
C18_RegistryReadUnderLock ==
    /\ pushPc = "copy" => cdsConnectionsMux = "cdsPushAll"
    /\ pushPc = "marshal" => cdsConnectionsMux = "Cdsz"

\* the requests of c that its reader received and its handler has not
\* taken, oldest first: the buffered ones, then the one the reader holds
InFlight(c) ==
    reqChannel[c] \o (IF rpc[c] = "put" THEN <<discReq[c]>> ELSE <<>>)

\* C19: the requests in flight on a connection are, in order, those
\* received after the last one the handler took: none is dropped,
\* duplicated or overtaken, reqChannel never holds more than its one slot,
\* and the handler takes the requests in the order of their receipt.
C19_RequestsInOrder ==
    [][\A c \in Conns :
          /\ Len(reqChannel'[c]) <= ReqChannelCap
          /\ Len(InFlight(c)') = nRecvd'[c] - nTaken'[c]
          /\ \A i \in 1..Len(InFlight(c)') :
                InFlight(c)'[i].seq = nTaken'[c] + i
          /\ TakesRequest(c)
                => (/\ Head(reqChannel[c]).seq = nTaken[c] + 1
                    /\ nTaken'[c] = nTaken[c] + 1)]_vars

\* C19 witness: the handler took the first request and answered it, then
\* took a push signal, whose response it is sending, while the second
\* request waits in reqChannel
C19_Witness ==
    \E c \in Conns :
        /\ nTaken[c] = 1 /\ nSend[c] = 1
        /\ trig[c] = "push" /\ hpc[c] = "send"
        /\ Len(reqChannel[c]) = ReqChannelCap
        /\ Head(reqChannel[c]).seq = 2

InIteration(c) == hpc[c] \in {"build", "send"}

\* C21: the calls of stream.Send on a connection are as many as the triggers
\* its handler took, the initial request and the push signals, less the one
\* whose iteration is under way: each iteration past the select attempts one
\* send, and the sends are never more than 1 plus the push signals taken.
C21_OneSendPerTrigger ==
    \A c \in Conns :
        /\ nSend[c] = (IF initialRequestReceived[c] THEN 1 ELSE 0)
                       + nPushTaken[c]
                       - (IF InIteration(c) THEN 1 ELSE 0)
        /\ nSend[c] <= 1 + nPushTaken[c]

\* C21 witness: a handler answered its initial request and a push signal,
\* two sends for two triggers, having dropped an acknowledgement in between
C21_Witness ==
    \E c \in Conns :
        /\ initialRequestReceived[c]
        /\ nPushTaken[c] = 1
        /\ nTaken[c] = 2
        /\ nSend[c] = 2
        /\ ~InIteration(c)

TypeOK ==
    /\ \A c \in Conns : pushChannel[c] \in 0..PushChannelCap
    /\ \A c \in Conns : Len(reqChannel[c]) <= ReqChannelCap
====
